---- MODULE Spec2Model ----
(***************************************************************************)
(* Field Intel voice-to-CRM pipeline: the transcribe, analyze and crm-sync *)
(* edge functions, and the browser side of the Salesforce OAuth/PKCE       *)
(* callback.                                                               *)
(*                                                                         *)
(* Each edge function is a request handler with awaits; a handler is cut   *)
(* into steps at the awaits where another invocation can observe or change *)
(* the shared rows (recordings, CRM contacts).  The database is taken to   *)
(* accept the writes the handlers send, except where a handler itself      *)
(* checks the returned error object.                                       *)
(***************************************************************************)
EXTENDS Integers, Sequences, FiniteSets, TLC

\* ------------------------------------------------------------------------
\* Bounds of the model
\* ------------------------------------------------------------------------
MaxTicks == 3
MaxCallbacks == 2
MaxAuthAttempts == 1
MaxInvocations == 3
MaxSyncs == 2
MaxExchanges == 2
MaxDisconnects == 1

\* one clock tick of the model, in milliseconds (5 minutes)
TickMs == 5 * 60 * 1000

NoVal == "null"
NoId == 0

\* ------------------------------------------------------------------------
\* State
\* ------------------------------------------------------------------------
VARIABLES
  now,               \* Date.now() of the browser, ms
  sessionStorage,    \* salesforce_oauth_state / salesforce_code_verifier
  authAttempts,      \* number of initiateSalesforceAuth calls so far
  exchangeRequests,  \* requests POSTed to the salesforce-oauth function
  callbacks,         \* number of callbacks handled so far
  callback,          \* the callback being handled: inputs, locals, result
  processingRef,     \* processingRef.current of the mounted callback page
  issued             \* the state parameter of the authorization URL

oauthVars == <<now, sessionStorage, authAttempts,
               exchangeRequests, callbacks, callback, processingRef, issued>>

VARIABLES
  env,               \* secrets of the edge functions' environment
  recordingStatus,   \* recordings.status of the recording
  recordingError,    \* recordings.error_message of the recording
  transcriptions,    \* rows of public.transcriptions, id = position
  analysisResults,   \* rows of public.analysis_results, id = position
  triggers,          \* fire-and-forget requests issued by the stages
  inv                \* the handler invocations, in order of arrival

pipeVars == <<env, recordingStatus, recordingError, transcriptions,
              analysisResults, triggers, inv>>

VARIABLES
  profile,           \* the user_profiles row of the recording's owner
  syncLogs,          \* rows of public.crm_sync_logs
  crmContacts,       \* Contact records of the Salesforce org, id = position
  crmTasks           \* Task records of the Salesforce org, id = position

crmVars == <<profile, syncLogs, crmContacts, crmTasks>>

VARIABLES
  oauthEnv,          \* SALESFORCE_CLIENT_ID / SALESFORCE_CLIENT_SECRET secrets
  otherProfile,      \* the user_profiles row of a second user
  exch,              \* invocations of the salesforce-oauth function
  disconnects,       \* number of disconnectCRM calls so far
  profileOps         \* the successful writes of the owner's credential

exchangeVars == <<oauthEnv, otherProfile, exch, disconnects, profileOps>>

vars == <<oauthVars, pipeVars, crmVars, exchangeVars>>

\* ------------------------------------------------------------------------
\* OAuth / PKCE, browser side (src/services/crm/salesforce.js)
\* ------------------------------------------------------------------------
Nonces == {"n1", "n2"}
Verifiers == {"v1", "v2"}
Codes == {"code1"}

\* base64url(SHA-256(verifier)): injective on the verifiers of the model
generateCodeChallenge(verifier) ==
  CASE verifier = "v1" -> "c1"
    [] verifier = "v2" -> "c2"
    [] OTHER -> "c?"

Challenges == {generateCodeChallenge(v) : v \in Verifiers}

\* 10 * 60 * 1000 of the expiry check
STATE_MAX_AGE == 10 * 60 * 1000

Timestamps == {k * TickMs : k \in 0..MaxTicks}

\* what atob + JSON.parse make of a state parameter: ok = FALSE when
\* decoding throws, otherwise the object with its fields (NoVal = missing)
GarbageState ==
  [ok |-> FALSE, random |-> NoVal, verifier |-> NoVal,
   challenge |-> NoVal, timestamp |-> 0]

\* btoa(JSON.stringify(stateData)) of initiateSalesforceAuth, seen through
\* the decoding of the callback
EncodeState(random, verifier, challenge, timestamp) ==
  [ok |-> TRUE, random |-> random, verifier |-> verifier,
   challenge |-> challenge, timestamp |-> timestamp]

\* every state parameter a callback URL may carry
CallbackStates ==
  {GarbageState} \cup
  [ok : {TRUE}, random : Nonces, verifier : Verifiers,
   challenge : Challenges, timestamp : Timestamps]

EmptySessionStorage == [state |-> NoVal, verifier |-> NoVal]

SessionResults == {"session", "error", "none"}

\* the inner try/catch of handleSalesforceCallback: decode, expiry check,
\* nonce check, and the sessionStorage fallback of the catch block
DecodeStep(state, ss, t) ==
  LET innerThrows ==
        \/ ~state.ok                                   \* atob / JSON.parse
        \/ state.verifier = NoVal                      \* .substring of undefined
        \/ t - state.timestamp > STATE_MAX_AGE         \* 'OAuth state expired'
        \/ (ss.state # NoVal /\ ss.state # state.random) \* 'Invalid state parameter'
  IN IF ~innerThrows
       THEN [rejected |-> FALSE, codeVerifier |-> state.verifier]
       ELSE IF ss.verifier = NoVal
              THEN [rejected |-> TRUE, codeVerifier |-> NoVal]
              ELSE [rejected |-> FALSE, codeVerifier |-> ss.verifier]

\* the verifier verification: originalChallenge = stateData?.challenge
VerifyStep(state, codeVerifier) ==
  LET originalChallenge == IF state.ok THEN state.challenge ELSE NoVal
  IN \/ originalChallenge = NoVal
     \/ generateCodeChallenge(codeVerifier) = originalChallenge

\* the callback being handled (pc = "idle": none yet; "done": returned)
NoCallback ==
  [pc |-> "idle", code |-> NoVal, state |-> GarbageState,
   ssBefore |-> EmptySessionStorage, at |-> 0, codeVerifier |-> NoVal,
   lookups |-> 0, session |-> FALSE, sessionError |-> FALSE,
   sessionErrorBeforeSession |-> FALSE,
   sent |-> FALSE, success |-> FALSE]

OAuthInit ==
  /\ now = 0
  /\ sessionStorage = EmptySessionStorage
  /\ authAttempts = 0
  /\ exchangeRequests = <<>>
  /\ callbacks = 0
  /\ callback = NoCallback
  /\ processingRef = FALSE
  /\ issued = GarbageState

\* the browser clock advances
Tick ==
  /\ now < MaxTicks * TickMs
  /\ now' = now + TickMs
  /\ UNCHANGED <<sessionStorage, authAttempts,
                 exchangeRequests, callbacks, callback, processingRef, issued>>
  /\ UNCHANGED <<pipeVars, crmVars, exchangeVars>>

\* the state blob put into the authorization URL is
\* EncodeState(random, verifier, generateCodeChallenge(verifier), now);
\* the redundant copy of nonce and verifier goes to sessionStorage; the
\* browser leaves for Salesforce, which ends whatever the page was running,
\* and comes back to a freshly mounted callback page
initiateSalesforceAuth ==
  /\ authAttempts < MaxAuthAttempts
  /\ callback.pc \in {"idle", "done"}
  /\ \E random \in Nonces, verifier \in Verifiers :
       /\ sessionStorage' = [state |-> random, verifier |-> verifier]
       /\ issued' = EncodeState(random, verifier,
                                generateCodeChallenge(verifier), now)
  /\ authAttempts' = authAttempts + 1
  /\ processingRef' = FALSE
  /\ UNCHANGED <<now, exchangeRequests, callbacks, callback>>
  /\ UNCHANGED <<pipeVars, crmVars, exchangeVars>>

\* handleSalesforceCallback(code, state) up to its first await: decode the
\* state, check expiry and nonce, fall back to sessionStorage, clean up.
\* The state is whatever the callback URL carries. The effect of the
\* SalesforceCallback page calls it once per mounted page (processingRef).
handleSalesforceCallback ==
  /\ callback.pc \in {"idle", "done"}
  /\ callbacks < MaxCallbacks
  /\ ~processingRef
  /\ processingRef' = TRUE
  /\ \E code \in Codes, state \in CallbackStates :
       LET d == DecodeStep(state, sessionStorage, now)
           rejected == d.rejected \/ d.codeVerifier = NoVal
       IN /\ callback' =
               [NoCallback EXCEPT
                  !.pc = IF rejected THEN "done" ELSE "session",
                  !.code = code, !.state = state,
                  !.ssBefore = sessionStorage, !.at = now,
                  !.codeVerifier = d.codeVerifier]
          /\ sessionStorage' =
               IF rejected THEN sessionStorage ELSE EmptySessionStorage
  /\ callbacks' = callbacks + 1
  /\ UNCHANGED <<now, authAttempts, exchangeRequests, issued>>
  /\ UNCHANGED <<pipeVars, crmVars, exchangeVars>>

\* one pass of the retry loop (at most 3 getSession() calls); when the loop
\* is left: throw on sessionError or missing session, verify the verifier,
\* and send the exchange request
getSessionAttempt ==
  /\ callback.pc = "session"
  /\ \E result \in SessionResults :
       LET attempt == callback.lookups + 1
           found == result = "session"
           sessionError == callback.sessionError \/ result = "error"
           loopDone == found \/ attempt >= 3
           passes == /\ found
                     /\ ~sessionError
                     /\ VerifyStep(callback.state, callback.codeVerifier)
       IN /\ callback' =
               [callback EXCEPT
                  !.lookups = attempt,
                  !.session = found,
                  !.sessionError = sessionError,
                  !.sessionErrorBeforeSession = found /\ sessionError,
                  !.sent = loopDone /\ passes,
                  !.pc = IF ~loopDone THEN "session"
                         ELSE IF passes THEN "exchange" ELSE "done"]
          /\ exchangeRequests' =
               IF loopDone /\ passes
                 THEN Append(exchangeRequests,
                             [code |-> callback.code,
                              codeVerifier |-> callback.codeVerifier,
                              forIssued |-> /\ authAttempts >= 1
                                            /\ callback.state = issued])
                 ELSE exchangeRequests
  /\ UNCHANGED <<now, sessionStorage, authAttempts, callbacks,
                 processingRef, issued>>
  /\ UNCHANGED <<pipeVars, crmVars, exchangeVars>>

\* the response of the salesforce-oauth function arrives: ok or not
exchangeResponse ==
  /\ callback.pc = "exchange"
  /\ \E ok \in BOOLEAN :
       callback' = [callback EXCEPT !.pc = "done", !.success = ok]
  /\ UNCHANGED <<now, sessionStorage, authAttempts, exchangeRequests,
                 callbacks, processingRef, issued>>
  /\ UNCHANGED <<pipeVars, crmVars, exchangeVars>>

\* the callback URL is loaded again (reload, back / forward): the page is
\* mounted anew with useRef(false); sessionStorage outlives the reload
ReloadCallbackPage ==
  /\ callback.pc = "done"
  /\ callbacks < MaxCallbacks
  /\ processingRef
  /\ processingRef' = FALSE
  /\ UNCHANGED <<now, sessionStorage, authAttempts, exchangeRequests,
                 callbacks, callback, issued>>
  /\ UNCHANGED <<pipeVars, crmVars, exchangeVars>>

\* ------------------------------------------------------------------------
\* The pipeline: recordings, transcribe and analyze edge functions
\* ------------------------------------------------------------------------
RecordingId == "r1"
UserId == "u1"

\* recording_status of the schema, in pipeline order
PipelineOrder ==
  <<"completed", "transcribing", "transcribed", "analyzing", "analyzed",
    "synced">>

Rank(status) ==
  CHOOSE k \in 1..Len(PipelineOrder) : PipelineOrder[k] = status

Emails == {"e1", "e2"}

\* a handler invocation: the request it got and its locals
NewInv(fn, recordingId) ==
  [fn |-> fn, pc |-> "start", recordingId |-> recordingId,
   bodyUsed |-> FALSE, error |-> NoVal, response |-> 0, wrote |-> <<>>,
   transcriptionId |-> NoId, analysisId |-> NoId,
   confidence_score |-> 0, contacts |-> <<>>, actionItems |-> <<>>,
   triggered |-> 0,
   idx |-> 1, searched |-> FALSE, searchFailed |-> FALSE,
   existingContactId |-> NoId,
   syncedContacts |-> <<>>, syncedTasks |-> <<>>, errors |-> <<>>,
   status |-> NoVal, logged |-> <<>>, crmCalls |-> 0, overlapped |-> FALSE]

\* `await req.json().catch(() => ({}))` of the catch blocks: the body of a
\* Request can be read once; a second read rejects and yields {}
CatchBodyRecordingId(bodyUsed, req) ==
  IF bodyUsed \/ ~req.json THEN NoVal ELSE req.recordingId

\* the catch block of transcribe and analyze: status 'failed' is written
\* when the Supabase credentials are set and the re-read body names a
\* recording; returns the recording id written to, or NoVal
CatchWritesFailed(bodyUsed, req) ==
  env.supabase /\ CatchBodyRecordingId(bodyUsed, req) # NoVal

\* a body that is not JSON, with no fields to read
MalformedRequest ==
  [json |-> FALSE, recordingId |-> NoVal, audioFilePath |-> NoVal,
   id |-> NoId]

TranscribeRequests ==
  {MalformedRequest} \cup
  [json : {TRUE}, recordingId : {RecordingId, NoVal},
   audioFilePath : {"audio.webm", NoVal}, id : {NoId}]

\* requests naming a row by id: no id, an existing row, or a row that does
\* not exist
RequestsById(rows) ==
  {MalformedRequest} \cup
  [json : {TRUE}, recordingId : {RecordingId, NoVal},
   audioFilePath : {NoVal}, id : 0..(Len(rows) + 1)]

\* the first part of the transcribe and analyze handlers, up to and with
\* the status write ('transcribing' / 'analyzing'): environment check,
\* req.json(), required fields.  idMissing: the stage's second required
\* field is missing
StageStart(fn, req, idMissing, busy) ==
  LET k == Len(inv) + 1
      base == NewInv(fn, req.recordingId)
      configError == ~env.openai \/ ~env.supabase
      parseError == ~req.json
      invalid == req.recordingId = NoVal \/ idMissing
      thrown == configError \/ parseError
      writesFailed == thrown /\ CatchWritesFailed(~configError, req)
  IN /\ Len(inv) < MaxInvocations
     /\ inv' = Append(inv,
          IF thrown
            THEN [base EXCEPT
                    !.pc = "done", !.response = 500,
                    !.bodyUsed = TRUE,
                    !.error = "thrown",
                    !.wrote = IF writesFailed THEN <<"failed">> ELSE <<>>]
          ELSE IF invalid
            THEN [base EXCEPT !.pc = "done", !.response = 400,
                              !.bodyUsed = TRUE]
          ELSE [base EXCEPT !.pc = "work", !.bodyUsed = TRUE,
                            !.transcriptionId = req.id,
                            !.wrote = <<busy>>])
     /\ recordingStatus' =
          IF thrown
            THEN IF writesFailed THEN "failed" ELSE recordingStatus
          ELSE IF invalid THEN recordingStatus
          ELSE busy
     /\ recordingError' =
          IF writesFailed THEN "error" ELSE recordingError

\* a failure after the request was accepted: the catch block runs with the
\* body already read
StageFails(i, why) ==
  LET writesFailed == CatchWritesFailed(inv[i].bodyUsed,
                        [json |-> TRUE, recordingId |-> inv[i].recordingId])
  IN /\ inv' = [inv EXCEPT ![i].pc = "done", ![i].response = 500,
                           ![i].error = "thrown",
                           ![i].wrote = IF writesFailed
                                          THEN Append(@, "failed") ELSE @]
     /\ recordingStatus' = IF writesFailed THEN "failed" ELSE recordingStatus
     /\ recordingError' = IF writesFailed THEN "error" ELSE recordingError

\* --- transcribe -----------------------------------------------------------

\* a caller (the app after upload, or anyone re-invoking the stage) calls
\* the transcribe function
InvokeTranscribe ==
  /\ \E req \in TranscribeRequests :
       StageStart("transcribe", req, req.audioFilePath = NoVal,
                  "transcribing")
  /\ UNCHANGED <<env, transcriptions, analysisResults, triggers>>
  /\ UNCHANGED <<oauthVars, crmVars, exchangeVars>>

TranscribeFailures == {"download", "whisper", "lookup", "insert"}

\* download, Whisper call, recording lookup and insert of the transcript
TranscribeWork ==
  /\ \E i \in 1..Len(inv) :
       /\ inv[i].fn = "transcribe" /\ inv[i].pc = "work"
       /\ \/ /\ \E why \in TranscribeFailures : StageFails(i, why)
             /\ UNCHANGED transcriptions
          \/ /\ transcriptions' = Append(transcriptions,
                  [id |-> Len(transcriptions) + 1,
                   recording_id |-> inv[i].recordingId,
                   user_id |-> UserId, createdBy |-> i])
             /\ inv' = [inv EXCEPT ![i].pc = "mark",
                          ![i].transcriptionId = Len(transcriptions) + 1]
             /\ UNCHANGED <<recordingStatus, recordingError>>
  /\ UNCHANGED <<env, analysisResults, triggers>>
  /\ UNCHANGED <<oauthVars, crmVars, exchangeVars>>

\* variant: the call is sent a second time
TriggerAnalysis_Twice(i) ==
  LET t == [fn |-> "analyze", id |-> inv[i].transcriptionId,
            recordingId |-> inv[i].recordingId, by |-> i,
            delivered |-> FALSE]
  IN <<t, t>>

\* fetch(analysisUrl, { body: { transcriptionId, recordingId } }): one call,
\* not awaited, its rejection only logged
TriggerAnalysis(i) ==
  <<[fn |-> "analyze", id |-> inv[i].transcriptionId,
     recordingId |-> inv[i].recordingId, by |-> i, delivered |-> FALSE]>>

\* status 'transcribed', then the fire-and-forget call of analyze
TranscribeMark ==
  /\ \E i \in 1..Len(inv) :
       /\ inv[i].fn = "transcribe" /\ inv[i].pc = "mark"
       /\ recordingStatus' = "transcribed"
       /\ triggers' = triggers \o TriggerAnalysis(i)
       /\ inv' = [inv EXCEPT ![i].pc = "done", ![i].response = 200,
                    ![i].wrote = Append(@, "transcribed"),
                    ![i].triggered = @ + Len(TriggerAnalysis(i))]
  /\ UNCHANGED <<env, recordingError, transcriptions, analysisResults>>
  /\ UNCHANGED <<oauthVars, crmVars, exchangeVars>>

\* --- analyze --------------------------------------------------------------

\* a caller invokes analyze directly with identifiers of its choice
InvokeAnalyze ==
  /\ \E req \in RequestsById(transcriptions) :
       StageStart("analyze", req, req.id = NoId, "analyzing")
  /\ UNCHANGED <<env, transcriptions, analysisResults, triggers>>
  /\ UNCHANGED <<oauthVars, crmVars, exchangeVars>>

\* the platform delivers a fire-and-forget call of analyze
DeliverAnalyzeTrigger ==
  /\ \E t \in 1..Len(triggers) :
       /\ triggers[t].fn = "analyze" /\ ~triggers[t].delivered
       /\ StageStart("analyze",
            [json |-> TRUE, recordingId |-> triggers[t].recordingId,
             id |-> triggers[t].id], FALSE, "analyzing")
       /\ triggers' = [triggers EXCEPT ![t].delivered = TRUE]
  /\ UNCHANGED <<env, transcriptions, analysisResults>>
  /\ UNCHANGED <<oauthVars, crmVars, exchangeVars>>

\* what JSON.parse of the model's answer can yield; a missing
\* confidence_score behaves as 0 and a missing contacts array as []
\* (confidence in hundredths)
ExtractedContacts == {<<>>, <<"e1", "e2">>}

ExtractedActionItems == {<<>>, <<"t1">>}

ExtractedData ==
  [confidence_score : {79, 80},
   contacts : ExtractedContacts,
   action_items : ExtractedActionItems]

\* variant: the gate without the contacts conjunct
shouldAutoSync_NoContactCheck(extractedData) ==
  extractedData.confidence_score >= 80

\* extractedData.confidence_score >= 0.8 && extractedData.contacts?.length > 0
shouldAutoSync(extractedData) ==
  extractedData.confidence_score >= 80 /\ Len(extractedData.contacts) > 0

AnalyzeFailures == {"fetch", "gpt", "json", "insert"}

\* fetch of the transcript, GPT call, JSON.parse, insert of the result
AnalyzeWork ==
  /\ \E i \in 1..Len(inv) :
       /\ inv[i].fn = "analyze" /\ inv[i].pc = "work"
       /\ \/ /\ \E why \in AnalyzeFailures :
                  /\ inv[i].transcriptionId \notin 1..Len(transcriptions)
                       => why = "fetch"
                  /\ StageFails(i, why)
             /\ UNCHANGED analysisResults
          \/ /\ inv[i].transcriptionId \in 1..Len(transcriptions)
             /\ \E extractedData \in ExtractedData :
                  /\ analysisResults' = Append(analysisResults,
                       [id |-> Len(analysisResults) + 1,
                        transcription_id |-> inv[i].transcriptionId,
                        recording_id |-> inv[i].recordingId,
                        user_id |-> UserId,
                        contacts |-> extractedData.contacts,
                        action_items |-> extractedData.action_items,
                        confidence_score |->
                          extractedData.confidence_score])
                  /\ inv' = [inv EXCEPT ![i].pc = "mark",
                       ![i].analysisId = Len(analysisResults) + 1,
                       ![i].confidence_score =
                          extractedData.confidence_score,
                       ![i].contacts = extractedData.contacts,
                       ![i].actionItems = extractedData.action_items]
             /\ UNCHANGED <<recordingStatus, recordingError>>
  /\ UNCHANGED <<env, transcriptions, triggers>>
  /\ UNCHANGED <<oauthVars, crmVars, exchangeVars>>

\* status 'analyzed', then the conditional fire-and-forget call of crm-sync
AnalyzeMark ==
  /\ \E i \in 1..Len(inv) :
       /\ inv[i].fn = "analyze" /\ inv[i].pc = "mark"
       /\ recordingStatus' = "analyzed"
       /\ LET fire == shouldAutoSync(
                        [confidence_score |-> inv[i].confidence_score,
                         contacts |-> inv[i].contacts])
          IN /\ triggers' =
                  IF fire
                    THEN Append(triggers,
                           [fn |-> "crm-sync", id |-> inv[i].analysisId,
                            recordingId |-> inv[i].recordingId, by |-> i,
                            delivered |-> FALSE])
                    ELSE triggers
             /\ inv' = [inv EXCEPT ![i].pc = "done", ![i].response = 200,
                          ![i].wrote = Append(@, "analyzed"),
                          ![i].triggered = IF fire THEN @ + 1 ELSE @]
  /\ UNCHANGED <<env, recordingError, transcriptions, analysisResults>>
  /\ UNCHANGED <<oauthVars, crmVars, exchangeVars>>

\* ------------------------------------------------------------------------
\* The crm-sync edge function and the Salesforce org
\* ------------------------------------------------------------------------
InstanceUrl == "https://org.my.salesforce.com"

Profile(provider, connected, accessToken, instanceUrl) ==
  [crm_provider |-> provider, crm_connected |-> connected,
   crm_access_token |-> accessToken,
   crm_refresh_token |-> IF accessToken = NoVal THEN NoVal ELSE "rt1",
   crm_user_id |-> IF accessToken = NoVal THEN NoVal ELSE "sf-user",
   settings |-> [salesforce_instance_url |-> instanceUrl,
                 autoSyncToCRM |-> NoVal]]

\* the user_profiles rows the sync stage can meet: never connected,
\* connected, disconnected again, connected without instance_url in the
\* token response, flag set without a token, another provider of the
\* crm_provider enum
ProfileSamples ==
  {Profile(NoVal, FALSE, NoVal, NoVal),
   Profile("salesforce", TRUE, "at1", InstanceUrl),
   Profile(NoVal, FALSE, NoVal, InstanceUrl),
   Profile("salesforce", TRUE, "at1", NoVal),
   Profile("salesforce", TRUE, NoVal, InstanceUrl),
   Profile("hubspot", TRUE, "at1", InstanceUrl)}

ItemPhase == {"contact", "task", "finish"}

\* variant: the flag alone, without the access token
CrmNotConnected_FlagOnly(p) ==
  ~p.crm_connected

\* !profile.crm_connected || !profile.crm_access_token
CrmNotConnected(p) ==
  ~p.crm_connected \/ p.crm_access_token = NoVal

\* variant: the provider check alone
CredentialError_ProviderOnly(p) ==
  IF p.crm_provider # "salesforce" THEN "provider" ELSE NoVal

\* profile.crm_provider !== 'salesforce' throws, then a missing
\* profile.settings?.salesforce_instance_url throws
CredentialError(p) ==
  IF p.crm_provider # "salesforce" THEN "provider"
  ELSE IF p.settings.salesforce_instance_url = NoVal THEN "instance"
  ELSE NoVal

\* position idx in the two loops: first the contacts, then the action items
ItemPc(idx, contacts, actionItems) ==
  IF idx <= Len(contacts) THEN "contact"
  ELSE IF idx <= Len(contacts) + Len(actionItems) THEN "task"
  ELSE "finish"

\* the catch block of crm-sync: a 'failed' row is logged when the re-read
\* body names a recording
SyncCatchLog(bodyUsed, req) ==
  IF CatchBodyRecordingId(bodyUsed, req) # NoVal
    THEN <<[user_id |-> UserId, recording_id |-> req.recordingId,
            provider |-> "salesforce", status |-> "failed",
            contacts |-> 0, tasks |-> 0, errors |-> 1]>>
    ELSE <<>>

\* the handler up to the item loops: parse, validate, fetch the analysis
\* and the profile, connection / provider / instance URL checks
SyncStart(req) ==
  LET k == Len(inv) + 1
      base == [NewInv("crm-sync", req.recordingId) EXCEPT
                 !.bodyUsed = TRUE, !.analysisId = req.id]
      found == req.id \in 1..Len(analysisResults)
      analysis == analysisResults[req.id]
      why == IF ~req.json THEN "parse"
             ELSE IF req.id = NoId \/ req.recordingId = NoVal THEN "fields"
             ELSE IF ~found THEN "analysis"
             ELSE IF CrmNotConnected(profile) THEN "skipped"
             ELSE CredentialError(profile)
      busy == {j \in 1..Len(inv) :
                 inv[j].fn = "crm-sync" /\ inv[j].pc \in ItemPhase}
      marked == [j \in 1..Len(inv) |->
                   IF j \in busy THEN [inv[j] EXCEPT !.overlapped = TRUE]
                                 ELSE inv[j]]
      catchLog == SyncCatchLog(TRUE, req)
  IN /\ Len(inv) < MaxInvocations
     /\ Cardinality({j \in 1..Len(inv) : inv[j].fn = "crm-sync"}) < MaxSyncs
     /\ IF why = "skipped"
          THEN /\ syncLogs' = Append(syncLogs,
                    [user_id |-> UserId, recording_id |-> req.recordingId,
                     provider |-> IF profile.crm_provider = NoVal
                                    THEN "none" ELSE profile.crm_provider,
                     status |-> "skipped",
                     contacts |-> 0, tasks |-> 0, errors |-> 1])
               /\ inv' = Append(inv,
                    [base EXCEPT !.pc = "done", !.response = 200,
                                 !.status = "skipped",
                                 !.logged = <<"skipped">>])
        ELSE IF why # NoVal
          THEN /\ syncLogs' = syncLogs \o catchLog
               /\ inv' = Append(inv,
                    [base EXCEPT !.pc = "done", !.response = 500,
                       !.error = why,
                       !.logged = [n \in 1..Len(catchLog) |-> "failed"]])
        ELSE /\ syncLogs' = syncLogs
             /\ inv' = Append(marked,
                  [base EXCEPT
                     !.pc = ItemPc(1, analysis.contacts,
                                   analysis.action_items),
                     !.contacts = analysis.contacts,
                     !.actionItems = analysis.action_items,
                     !.overlapped = busy # {}])

\* a caller invokes crm-sync directly with identifiers of its choice
InvokeSync ==
  /\ \E req \in RequestsById(analysisResults) : SyncStart(req)
  /\ UNCHANGED <<env, recordingStatus, recordingError, transcriptions,
                 analysisResults, triggers>>
  /\ UNCHANGED <<profile, crmContacts, crmTasks>>
  /\ UNCHANGED <<oauthVars, exchangeVars>>

\* the platform delivers a fire-and-forget call of crm-sync
DeliverSyncTrigger ==
  /\ \E t \in 1..Len(triggers) :
       /\ triggers[t].fn = "crm-sync" /\ ~triggers[t].delivered
       /\ SyncStart([json |-> TRUE, recordingId |-> triggers[t].recordingId,
                     id |-> triggers[t].id])
       /\ triggers' = [triggers EXCEPT ![t].delivered = TRUE]
  /\ UNCHANGED <<env, recordingStatus, recordingError, transcriptions,
                 analysisResults>>
  /\ UNCHANGED <<profile, crmContacts, crmTasks>>
  /\ UNCHANGED <<oauthVars, exchangeVars>>

\* SELECT Id FROM Contact WHERE Email = '<email>' LIMIT 1
SearchContact(email) ==
  LET hits == {c \in 1..Len(crmContacts) : crmContacts[c].Email = email}
  IN IF hits = {} THEN NoId
     ELSE CHOOSE c \in hits : \A d \in hits : c <= d

\* syncContactToSalesforce, first await: the search by email; a failed
\* search leaves existingContactId null
SyncContactSearch ==
  /\ \E i \in 1..Len(inv) :
       /\ inv[i].fn = "crm-sync" /\ inv[i].pc = "contact"
       /\ ~inv[i].searched
       /\ inv[i].contacts[inv[i].idx] # NoVal
       /\ \E ok \in BOOLEAN :
            inv' = [inv EXCEPT
                      ![i].searched = TRUE,
                      ![i].searchFailed = @ \/ ~ok,
                      ![i].crmCalls = @ + 1,
                      ![i].existingContactId =
                         IF ok THEN SearchContact(inv[i].contacts[inv[i].idx])
                               ELSE NoId]
  /\ UNCHANGED <<env, recordingStatus, recordingError, transcriptions,
                 analysisResults, triggers>>
  /\ UNCHANGED crmVars
  /\ UNCHANGED <<oauthVars, exchangeVars>>

\* variant: the first failed item ends its loop
NextIdx_StopOnFailure(idx, ok, last) == IF ok THEN idx + 1 ELSE last + 1

\* for (const ... of ...) { try { ... } catch { errors.push(...) } }: the
\* catch is inside the loop body, the loop goes on to the next item
NextIdx(idx, ok, last) == idx + 1

\* variant: always POST
UpdateExisting_AlwaysCreate(existingContactId) == FALSE

\* existingContactId ? PATCH : POST
UpdateExisting(existingContactId) == existingContactId # NoId

\* syncContactToSalesforce, second await: PATCH of the found record or POST
\* of a new one; a failure adds one message to errors
SyncContactWrite ==
  /\ \E i \in 1..Len(inv) :
       LET email == inv[i].contacts[inv[i].idx]
           update == UpdateExisting(inv[i].existingContactId)
           newId == Len(crmContacts) + 1
           next(ok) ==
             LET to == NextIdx(inv[i].idx, ok, Len(inv[i].contacts))
             IN [inv[i] EXCEPT
                   !.idx = to, !.searched = FALSE,
                   !.existingContactId = NoId, !.crmCalls = @ + 1,
                   !.pc = ItemPc(to, inv[i].contacts, inv[i].actionItems)]
       IN /\ inv[i].fn = "crm-sync" /\ inv[i].pc = "contact"
          /\ inv[i].searched \/ email = NoVal
          /\ \E ok \in BOOLEAN :
               /\ crmContacts' =
                    IF ok /\ ~update
                      THEN Append(crmContacts,
                                  [Id |-> newId, Email |-> email])
                      ELSE crmContacts
               /\ inv' = [inv EXCEPT ![i] =
                    IF ok
                      THEN [next(ok) EXCEPT !.syncedContacts = Append(@,
                              IF update
                                THEN [id |-> inv[i].existingContactId,
                                      action |-> "updated", email |-> email]
                                ELSE [id |-> newId, action |-> "created",
                                      email |-> email])]
                      ELSE [next(ok) EXCEPT !.errors = Append(@, inv[i].idx)]]
  /\ UNCHANGED <<env, recordingStatus, recordingError, transcriptions,
                 analysisResults, triggers>>
  /\ UNCHANGED <<profile, syncLogs, crmTasks>>
  /\ UNCHANGED <<oauthVars, exchangeVars>>

\* variant: the contact synced last
FirstSyncedContactId_Last(syncedContacts) ==
  IF Len(syncedContacts) > 0 THEN syncedContacts[Len(syncedContacts)].id
                             ELSE NoId

\* const contactId = syncedContacts[0]?.id
FirstSyncedContactId(syncedContacts) ==
  IF Len(syncedContacts) > 0 THEN syncedContacts[1].id ELSE NoId

\* variant: a task whose subject is already in the org is not created again
CreateTask_OncePerSubject(tasks, item, whoId, by) ==
  IF \E t \in 1..Len(tasks) : tasks[t].Subject = item
    THEN tasks
    ELSE Append(tasks, [Id |-> Len(tasks) + 1, Subject |-> item,
                        WhoId |-> whoId, createdBy |-> by])

\* POST /sobjects/Task with taskData: a new record each time, no search
\* precedes it
CreateTask(tasks, item, whoId, by) ==
  Append(tasks, [Id |-> Len(tasks) + 1, Subject |-> item,
                 WhoId |-> whoId, createdBy |-> by])

\* syncTaskToSalesforce: POST of a Task linked to the first synced contact
SyncTask ==
  /\ \E i \in 1..Len(inv) :
       LET item == inv[i].actionItems[inv[i].idx - Len(inv[i].contacts)]
           newId == Len(crmTasks) + 1
           next(ok) ==
             LET to == NextIdx(inv[i].idx, ok,
                               Len(inv[i].contacts) + Len(inv[i].actionItems))
             IN [inv[i] EXCEPT
                   !.idx = to, !.crmCalls = @ + 1,
                   !.pc = ItemPc(to, inv[i].contacts, inv[i].actionItems)]
       IN /\ inv[i].fn = "crm-sync" /\ inv[i].pc = "task"
          /\ \E ok \in BOOLEAN :
               /\ crmTasks' =
                    IF ok
                      THEN CreateTask(crmTasks, item,
                             FirstSyncedContactId(inv[i].syncedContacts), i)
                      ELSE crmTasks
               /\ inv' = [inv EXCEPT ![i] =
                    IF ok
                      THEN [next(ok) EXCEPT !.syncedTasks = Append(@, newId)]
                      ELSE [next(ok) EXCEPT !.errors = Append(@, inv[i].idx)]]
  /\ UNCHANGED <<env, recordingStatus, recordingError, transcriptions,
                 analysisResults, triggers>>
  /\ UNCHANGED <<profile, syncLogs, crmContacts>>
  /\ UNCHANGED <<oauthVars, exchangeVars>>

\* variant: allFailed looks at the contacts alone
ClassifyStatus_ContactsOnly(nSyncedContacts, nSyncedTasks, nContacts, nActionItems, nErrors) ==
  LET hasErrors == nErrors > 0
      allFailed == nSyncedContacts = 0 /\ nContacts > 0
  IN IF allFailed THEN "failed"
     ELSE IF hasErrors THEN "partial"
     ELSE "completed"

\* allFailed ? 'failed' : hasErrors ? 'partial' : 'completed'
ClassifyStatus(nSyncedContacts, nSyncedTasks, nContacts, nActionItems, nErrors) ==
  LET hasErrors == nErrors > 0
      allFailed == /\ nSyncedContacts = 0
                   /\ nSyncedTasks = 0
                   /\ (nContacts > 0 \/ nActionItems > 0)
  IN IF allFailed THEN "failed"
     ELSE IF hasErrors THEN "partial"
     ELSE "completed"

\* variant: every outcome but failed advances the recording
AdvancesToSynced_UnlessFailed(status) == status # "failed"

\* if (status === 'completed') update recordings set status = 'synced'
AdvancesToSynced(status) == status = "completed"

\* classification, the crm_sync_logs row, the recording status, the response
SyncFinish ==
  /\ \E i \in 1..Len(inv) :
       LET status == ClassifyStatus(Len(inv[i].syncedContacts),
                       Len(inv[i].syncedTasks), Len(inv[i].contacts),
                       Len(inv[i].actionItems), Len(inv[i].errors))
       IN /\ inv[i].fn = "crm-sync" /\ inv[i].pc = "finish"
          /\ syncLogs' = Append(syncLogs,
               [user_id |-> UserId, recording_id |-> inv[i].recordingId,
                provider |-> "salesforce", status |-> status,
                contacts |-> Len(inv[i].syncedContacts),
                tasks |-> Len(inv[i].syncedTasks),
                errors |-> Len(inv[i].errors)])
          /\ recordingStatus' =
               IF AdvancesToSynced(status) THEN "synced"
                                           ELSE recordingStatus
          /\ inv' = [inv EXCEPT ![i].pc = "done", ![i].response = 200,
                       ![i].status = status,
                       ![i].logged = Append(@, status),
                       ![i].wrote = IF AdvancesToSynced(status)
                                      THEN Append(@, "synced") ELSE @]
  /\ UNCHANGED <<env, recordingError, transcriptions, analysisResults,
                 triggers>>
  /\ UNCHANGED <<profile, crmContacts, crmTasks>>
  /\ UNCHANGED <<oauthVars, exchangeVars>>

\* ------------------------------------------------------------------------
\* The salesforce-oauth edge function and disconnectCRM
\* ------------------------------------------------------------------------
OtherUserId == "u2"

\* the secrets of the function: both set, or one missing
OAuthEnvSamples ==
  {[clientId |-> "cid", clientSecret |-> "cs1"],
   [clientId |-> "cid", clientSecret |-> NoVal],
   [clientId |-> NoVal, clientSecret |-> "cs1"]}

\* the user a session token belongs to
TokenOwner(token) ==
  CASE token = "jwt-u1" -> UserId
    [] token = "jwt-u2" -> OtherUserId
    [] OTHER -> NoVal

\* supabaseAdmin.auth.getUser(token): { data: { user }, error }
GetUserResults(token) ==
  {[user |-> NoVal, error |-> TRUE],
   [user |-> TokenOwner(token), error |-> FALSE]}

\* a JSON body; userId is a field the caller may add
ExchangeBody(code, codeVerifier, redirectUri, userId) ==
  [json |-> TRUE, code |-> code, codeVerifier |-> codeVerifier,
   redirectUri |-> redirectUri, userId |-> userId]

RedirectUri == "https://app/auth/salesforce/callback"

\* the requests: a body that is not JSON, a parameter missing, the app's
\* request, requests naming a user in the body, requests without a valid
\* session token
ExchangeRequests ==
  {[body |-> [json |-> FALSE, code |-> NoVal, codeVerifier |-> NoVal,
              redirectUri |-> NoVal, userId |-> NoVal],
    bearer |-> "jwt-u1"],
   [body |-> ExchangeBody(NoVal, "v1", RedirectUri, NoVal),
    bearer |-> "jwt-u1"],
   [body |-> ExchangeBody("code1", NoVal, RedirectUri, NoVal),
    bearer |-> "jwt-u1"],
   [body |-> ExchangeBody("code1", "v1", NoVal, NoVal),
    bearer |-> "jwt-u1"],
   [body |-> ExchangeBody("code1", "v1", RedirectUri, NoVal),
    bearer |-> "jwt-u1"],
   [body |-> ExchangeBody("code1", "v1", RedirectUri, OtherUserId),
    bearer |-> "jwt-u1"],
   [body |-> ExchangeBody("code1", "v1", RedirectUri, UserId),
    bearer |-> "jwt-u2"],
   [body |-> ExchangeBody("code1", "v1", RedirectUri, OtherUserId),
    bearer |-> NoVal],
   [body |-> ExchangeBody("code1", "v1", RedirectUri, OtherUserId),
    bearer |-> "bad"]}

\* !code || !codeVerifier || !redirectUri
MissingParameter(body) ==
  body.code = NoVal \/ body.codeVerifier = NoVal \/ body.redirectUri = NoVal

\* !clientId || !clientSecret
CredentialsMissing(e) ==
  e.clientId = NoVal \/ e.clientSecret = NoVal

\* variant: any answer of the provider is taken as a success
ResponseOk_Always(status) == TRUE

\* Response.ok of fetch
ResponseOk(status) == status \in 200..299

HttpStatuses == {200, 400}

\* the token endpoint's JSON answer: the tokens on success, an error object
\* without them otherwise
TokenResponse(status) ==
  IF status \in 200..299
    THEN [access_token |-> "at2", refresh_token |-> "rt2",
          instance_url |-> InstanceUrl]
    ELSE [access_token |-> NoVal, refresh_token |-> NoVal,
          instance_url |-> NoVal]

\* a value as a log line shows it: whole, or cut by substring()
Shown(value, full) == [value |-> value, full |-> full]

\* console.log of the parameters and of the environment check
ParameterLog(body) ==
  <<[line |-> 36, parts |-> {Shown(body.code, FALSE)}],
    [line |-> 37, parts |-> {Shown(body.codeVerifier, FALSE)}],
    [line |-> 39, parts |-> {Shown(body.redirectUri, TRUE)}]>>

EnvironmentLog(e) ==
  <<[line |-> 48, parts |-> {Shown(e.clientId, FALSE)}]>>

\* console.log of the token exchange request; the last line prints
\* tokenParams.toString()
TokenRequestLog(body, e) ==
  <<[line |-> 94, parts |-> {Shown(body.code, FALSE)}],
    [line |-> 95, parts |-> {Shown(e.clientId, TRUE)}],
    [line |-> 96, parts |-> {Shown(body.redirectUri, TRUE)}],
    [line |-> 98, parts |-> {Shown(body.codeVerifier, TRUE)}],
    [line |-> 99, parts |-> {Shown(body.codeVerifier, FALSE)}],
    [line |-> 101,
     parts |-> {Shown(body.code, TRUE), Shown(e.clientId, TRUE),
                Shown(e.clientSecret, TRUE),
                Shown(body.redirectUri, TRUE),
                Shown(body.codeVerifier, TRUE)}]>>

BearerLog(bearer) ==
  <<[line |-> 153, parts |-> {Shown(bearer, FALSE)}],
    [line |-> 158, parts |-> {Shown(bearer, FALSE)}]>>

\* an invocation: the request, the answers it got, and what it did
NewExchange(body, bearer) ==
  [pc |-> "start", body |-> body, bearer |-> bearer,
   tokenStatus |-> 0, userInfoStatus |-> 0,
   tokens |-> TokenResponse(0),
   userResult |-> [user |-> NoVal, error |-> FALSE],
   updateError |-> FALSE,
   calls |-> 0, log |-> <<>>, wroteProfile |-> NoVal,
   success |-> FALSE, response |-> 0]

\* the catch block: { success: false, error } with status 400
ExchangeFails(e) ==
  [e EXCEPT !.pc = "done", !.success = FALSE, !.response = 400]

\* variant: the row is chosen by the userId of the body
ProfileToUpdate_FromBody(body, user) ==
  IF body.userId # NoVal THEN body.userId ELSE user

\* .eq('id', user.id)
ProfileToUpdate(body, user) == user

\* the update of user_profiles sent on success; the settings column is
\* set to an object with the instance URL as its only key
CredentialUpdate(p, tokens) ==
  [p EXCEPT !.crm_provider = "salesforce",
            !.crm_connected = TRUE,
            !.crm_access_token = tokens.access_token,
            !.crm_refresh_token = tokens.refresh_token,
            !.crm_user_id = "sf-user",
            !.settings = [salesforce_instance_url |-> tokens.instance_url,
                          autoSyncToCRM |-> NoVal]]

\* req.json(), parameter check, credentials check, the logging of the
\* request, and the POST to the token endpoint
ExchangeStart ==
  /\ Len(exch) < MaxExchanges
  /\ \E req \in ExchangeRequests :
       LET body == req.body
           e == NewExchange(body, req.bearer)
       IN exch' = Append(exch,
            IF ~body.json \/ MissingParameter(body)
              THEN ExchangeFails(e)
            ELSE IF CredentialsMissing(oauthEnv)
              THEN ExchangeFails(
                     [e EXCEPT !.log = ParameterLog(body)
                                         \o EnvironmentLog(oauthEnv)])
            ELSE [e EXCEPT !.pc = "token", !.calls = 1,
                           !.log = ParameterLog(body)
                                     \o EnvironmentLog(oauthEnv)
                                     \o TokenRequestLog(body, oauthEnv)])
  /\ UNCHANGED <<oauthEnv, otherProfile, disconnects, profileOps>>
  /\ UNCHANGED <<oauthVars, pipeVars, crmVars>>

\* the token endpoint answers; on success the identity URL is fetched
ExchangeTokenResponse ==
  /\ \E i \in 1..Len(exch), status \in HttpStatuses :
       /\ exch[i].pc = "token"
       /\ LET e == [exch[i] EXCEPT !.tokenStatus = status,
                                   !.tokens = TokenResponse(status)]
          IN exch' = [exch EXCEPT ![i] =
               IF ~ResponseOk(status) THEN ExchangeFails(e)
               ELSE [e EXCEPT !.pc = "userinfo", !.calls = 2]]
  /\ UNCHANGED <<oauthEnv, otherProfile, disconnects, profileOps>>
  /\ UNCHANGED <<oauthVars, pipeVars, crmVars>>

\* the identity answer; then the Authorization header is read and
\* auth.getUser(token) is called
ExchangeUserInfoResponse ==
  /\ \E i \in 1..Len(exch), status \in HttpStatuses :
       /\ exch[i].pc = "userinfo"
       /\ LET e == [exch[i] EXCEPT !.userInfoStatus = status]
          IN exch' = [exch EXCEPT ![i] =
               IF ~ResponseOk(status) \/ e.bearer = NoVal
                 THEN ExchangeFails(e)
               ELSE [e EXCEPT !.pc = "auth",
                              !.log = @ \o BearerLog(e.bearer)]]
  /\ UNCHANGED <<oauthEnv, otherProfile, disconnects, profileOps>>
  /\ UNCHANGED <<oauthVars, pipeVars, crmVars>>

\* getUser answers; an authenticated caller's row is updated
ExchangeGetUser ==
  /\ \E i \in 1..Len(exch) :
       /\ exch[i].pc = "auth"
       /\ \E result \in GetUserResults(exch[i].bearer) :
            LET e == [exch[i] EXCEPT !.userResult = result]
            IN exch' = [exch EXCEPT ![i] =
                 IF result.error \/ result.user = NoVal
                   THEN ExchangeFails(e)
                 ELSE [e EXCEPT !.pc = "update"]]
  /\ UNCHANGED <<oauthEnv, otherProfile, disconnects, profileOps>>
  /\ UNCHANGED <<oauthVars, pipeVars, crmVars>>

\* the update of user_profiles is applied or refused; the response
ExchangeUpdate ==
  /\ \E i \in 1..Len(exch), ok \in BOOLEAN :
       LET e == exch[i]
           target == ProfileToUpdate(e.body, e.userResult.user)
       IN /\ e.pc = "update"
          /\ profile' = IF ok /\ target = UserId
                          THEN CredentialUpdate(profile, e.tokens)
                          ELSE profile
          /\ otherProfile' = IF ok /\ target = OtherUserId
                               THEN CredentialUpdate(otherProfile, e.tokens)
                               ELSE otherProfile
          /\ profileOps' = IF ok /\ target = UserId
                             THEN Append(profileOps, "exchange")
                             ELSE profileOps
          /\ exch' = [exch EXCEPT ![i] =
               IF ok THEN [e EXCEPT !.pc = "done", !.success = TRUE,
                                    !.response = 200,
                                    !.wroteProfile = target]
               ELSE ExchangeFails([e EXCEPT !.updateError = TRUE])]
  /\ UNCHANGED <<oauthEnv, disconnects>>
  /\ UNCHANGED <<syncLogs, crmContacts, crmTasks>>
  /\ UNCHANGED <<oauthVars, pipeVars>>

\* what disconnectCRM sets on the row
ClearCredential(p) ==
  [p EXCEPT !.crm_provider = NoVal,
            !.crm_connected = FALSE,
            !.crm_access_token = NoVal,
            !.crm_refresh_token = NoVal,
            !.crm_user_id = NoVal]

\* disconnectCRM of the owner: auth.getUser(), then the update
disconnectCRM ==
  /\ disconnects < MaxDisconnects
  /\ disconnects' = disconnects + 1
  /\ \E authenticated \in BOOLEAN, ok \in BOOLEAN :
       IF authenticated /\ ok
         THEN /\ profile' = ClearCredential(profile)
              /\ profileOps' = Append(profileOps, "disconnect")
         ELSE UNCHANGED <<profile, profileOps>>
  /\ UNCHANGED <<oauthEnv, otherProfile, exch>>
  /\ UNCHANGED <<syncLogs, crmContacts, crmTasks>>
  /\ UNCHANGED <<oauthVars, pipeVars>>

\* the preference the settings page saves: auto-sync switched off
PreferenceValues == {"false"}

\* updatedSettings = { ...currentSettings, ...settings }
MergeSettings(currentSettings, autoSyncToCRM) ==
  [currentSettings EXCEPT !.autoSyncToCRM = autoSyncToCRM]

\* updateSettings of the owner: auth.getUser(), the read of the current
\* settings and the update of the merged object, taken as one step
updateSettings ==
  /\ \E authenticated \in BOOLEAN, ok \in BOOLEAN, v \in PreferenceValues :
       profile' = IF authenticated /\ ok
                    THEN [profile EXCEPT
                            !.settings = MergeSettings(profile.settings, v)]
                    ELSE profile
  /\ UNCHANGED <<syncLogs, crmContacts, crmTasks>>
  /\ UNCHANGED <<oauthVars, pipeVars, exchangeVars>>

\* ------------------------------------------------------------------------
\* Specifications
\* ------------------------------------------------------------------------
PipeIdle ==
  /\ env = [openai |-> TRUE, supabase |-> TRUE]
  /\ recordingStatus = "completed"
  /\ recordingError = NoVal
  /\ transcriptions = <<>>
  /\ analysisResults = <<>>
  /\ triggers = <<>>
  /\ inv = <<>>

CrmIdle ==
  /\ profile = Profile(NoVal, FALSE, NoVal, NoVal)
  /\ syncLogs = <<>>
  /\ crmContacts = <<>>
  /\ crmTasks = <<>>

\* no exchange function deployed yet, nobody else connected
ExchangeIdle ==
  /\ oauthEnv = [clientId |-> "cid", clientSecret |-> "cs1"]
  /\ otherProfile = Profile(NoVal, FALSE, NoVal, NoVal)
  /\ exch = <<>>
  /\ disconnects = 0
  /\ profileOps = <<>>

\* the OAuth callback in the browser
InitOAuth == OAuthInit /\ PipeIdle /\ CrmIdle /\ ExchangeIdle

NextOAuth ==
  \/ Tick
  \/ initiateSalesforceAuth
  \/ handleSalesforceCallback
  \/ getSessionAttempt
  \/ exchangeResponse
  \/ ReloadCallbackPage

SpecOAuth == InitOAuth /\ [][NextOAuth]_vars

\* OPENAI_API_KEY and the Supabase credentials: all set, or one missing
EnvSamples ==
  {[openai |-> TRUE, supabase |-> TRUE],
   [openai |-> FALSE, supabase |-> TRUE],
   [openai |-> TRUE, supabase |-> FALSE]}

\* the pipeline on one uploaded recording: any deployment configuration,
\* any profile, an empty Salesforce org
Init ==
  /\ OAuthInit
  /\ ExchangeIdle
  /\ env \in EnvSamples
  /\ recordingStatus = "completed"
  /\ recordingError = NoVal
  /\ transcriptions = <<>>
  /\ analysisResults = <<>>
  /\ triggers = <<>>
  /\ inv = <<>>
  /\ profile \in {Profile(NoVal, FALSE, NoVal, NoVal),
                  Profile("salesforce", TRUE, "at1", InstanceUrl)}
  /\ syncLogs = <<>>
  /\ crmContacts = <<>>
  /\ crmTasks = <<>>

\* the analysis results the sync stage is run on: nothing extracted, an
\* action item alone, two contacts, a contact with an action item
AnalysisSamples ==
  {[contacts |-> <<>>, action_items |-> <<>>],
   [contacts |-> <<>>, action_items |-> <<"t1">>],
   [contacts |-> <<"e1", "e2">>, action_items |-> <<>>],
   [contacts |-> <<"e1">>, action_items |-> <<"t1">>]}

\* the sync stage alone, on a recording that was transcribed and analyzed:
\* any of the analysis results, any of the profiles, an empty org
InitSync ==
  /\ OAuthInit
  /\ ExchangeIdle
  /\ env = [openai |-> TRUE, supabase |-> TRUE]
  /\ recordingStatus = "analyzed"
  /\ recordingError = NoVal
  /\ transcriptions = <<[id |-> 1, recording_id |-> RecordingId,
                         user_id |-> UserId, createdBy |-> 0]>>
  /\ \E extractedData \in AnalysisSamples :
       analysisResults =
         <<[id |-> 1, transcription_id |-> 1,
            recording_id |-> RecordingId, user_id |-> UserId,
            contacts |-> extractedData.contacts,
            action_items |-> extractedData.action_items,
            confidence_score |-> 80]>>
  /\ triggers = <<>>
  /\ inv = <<>>
  /\ profile \in ProfileSamples
  /\ syncLogs = <<>>
  /\ crmContacts = <<>>
  /\ crmTasks = <<>>

NextSync ==
  \/ InvokeSync
  \/ SyncContactSearch
  \/ SyncContactWrite
  \/ SyncTask
  \/ SyncFinish

SpecSync == InitSync /\ [][NextSync]_vars

Next ==
  \/ InvokeTranscribe
  \/ TranscribeWork
  \/ TranscribeMark
  \/ InvokeAnalyze
  \/ DeliverAnalyzeTrigger
  \/ AnalyzeWork
  \/ AnalyzeMark
  \/ DeliverSyncTrigger
  \/ SyncContactSearch
  \/ SyncContactWrite
  \/ SyncTask
  \/ SyncFinish

Spec == Init /\ [][Next]_vars

\* the pipeline under the platform's scheduling: a fire-and-forget call that
\* was issued is delivered, and a handler that was started runs each of its
\* steps to its return; nothing obliges a caller to invoke a stage again
SpecFair ==
  /\ Init /\ [][Next]_vars
  /\ WF_vars(DeliverAnalyzeTrigger) /\ WF_vars(DeliverSyncTrigger)
  /\ WF_vars(TranscribeWork) /\ WF_vars(TranscribeMark)
  /\ WF_vars(AnalyzeWork) /\ WF_vars(AnalyzeMark)
  /\ WF_vars(SyncContactSearch) /\ WF_vars(SyncContactWrite)
  /\ WF_vars(SyncTask) /\ WF_vars(SyncFinish)

\* the exchange function and disconnectCRM: any deployment of the secrets,
\* an owner who is not connected yet or reconnects
InitExchange ==
  /\ OAuthInit
  /\ PipeIdle
  /\ oauthEnv \in OAuthEnvSamples
  /\ profile \in {Profile(NoVal, FALSE, NoVal, NoVal),
                  Profile("salesforce", TRUE, "at1", InstanceUrl)}
  /\ otherProfile = Profile(NoVal, FALSE, NoVal, NoVal)
  /\ syncLogs = <<>>
  /\ crmContacts = <<>>
  /\ crmTasks = <<>>
  /\ exch = <<>>
  /\ disconnects = 0
  /\ profileOps = <<>>

NextExchange ==
  \/ ExchangeStart
  \/ ExchangeTokenResponse
  \/ ExchangeUserInfoResponse
  \/ ExchangeGetUser
  \/ ExchangeUpdate
  \/ disconnectCRM

SpecExchange == InitExchange /\ [][NextExchange]_vars

\* the same with the settings page, where the owner saves preferences
NextSettings ==
  \/ updateSettings
  \/ NextExchange

SpecSettings == InitExchange /\ [][NextSettings]_vars

\* ------------------------------------------------------------------------
\* Properties of the OAuth callback
\* ------------------------------------------------------------------------

\* C3: a callback handled more than 10 minutes after the timestamp of its
\* decoded state is rejected: success = false and no exchange request sent.
C3_ExpiredStateRejected ==
  (/\ callback.pc # "idle"
   /\ callback.state.ok
   /\ callback.at - callback.state.timestamp > STATE_MAX_AGE)
  => (~callback.success /\ ~callback.sent)

\* C4: a callback whose decoded state carries a challenge different from
\* base64url(SHA-256(embedded verifier)) never reaches the exchange request.
C4_ChallengeMismatchRejected ==
  (/\ callback.pc # "idle"
   /\ callback.state.ok
   /\ callback.state.verifier # NoVal
   /\ callback.state.challenge # NoVal
   /\ callback.state.challenge
        # generateCodeChallenge(callback.state.verifier))
  => (~callback.success /\ ~callback.sent)

\* C5: a callback whose decoded nonce differs from the nonce held in
\* sessionStorage is rejected: success = false and no exchange request sent.
C5_NonceMismatchRejected ==
  (/\ callback.pc # "idle"
   /\ callback.state.ok
   /\ callback.ssBefore.state # NoVal
   /\ callback.state.random # callback.ssBefore.state)
  => (~callback.success /\ ~callback.sent)

\* ------------------------------------------------------------------------
\* Properties of the pipeline
\* ------------------------------------------------------------------------

\* C1: every change of the recording's status moves forward along
\* completed, transcribing, transcribed, analyzing, analyzed, synced, or is
\* a jump to failed.
C1_StatusMonotone ==
  [][recordingStatus' # recordingStatus =>
       \/ recordingStatus' = "failed"
       \/ /\ recordingStatus # "failed"
          /\ Rank(recordingStatus') >= Rank(recordingStatus)]_vars

SyncTriggersFor(analysisId) ==
  Cardinality({t \in 1..Len(triggers) :
                 triggers[t].fn = "crm-sync" /\ triggers[t].id = analysisId})

SyncInvocationsFor(analysisId) ==
  {j \in 1..Len(inv) :
     inv[j].fn = "crm-sync" /\ inv[j].analysisId = analysisId}

DoneSyncs ==
  {i \in 1..Len(inv) : inv[i].fn = "crm-sync" /\ inv[i].pc = "done"}

\* the invocations that went through the item loops
ItemSyncs == {i \in DoneSyncs : inv[i].status \in {"completed", "partial", "failed"}}

RecordsWithEmail(e) ==
  {c \in 1..Len(crmContacts) : crmContacts[c].Email = e}

\* the successful contact operations for an email, over all invocations
ContactOps(e) ==
  {<<i, k>> \in (1..Len(inv)) \X (1..2) :
     /\ inv[i].fn = "crm-sync"
     /\ k <= Len(inv[i].syncedContacts)
     /\ inv[i].syncedContacts[k].email = e}

Sequential == \A i \in 1..Len(inv) : ~inv[i].overlapped

\* C6 as stated: after successive (not overlapping) syncs of a contact
\* email there is exactly one record for it, one operation being the create
\* and every other one an update.
C6_OneRecordPerEmail ==
  Sequential =>
    \A e \in Emails :
      ContactOps(e) # {} =>
        /\ Cardinality(RecordsWithEmail(e)) = 1
        /\ Cardinality({o \in ContactOps(e) :
             inv[o[1]].syncedContacts[o[2]].action = "created"}) = 1

NoSearchFailed == \A i \in 1..Len(inv) : ~inv[i].searchFailed

\* C6 amended: the same, when every search by email succeeded.
C6_OneRecordWhenSearchSucceeds ==
  (Sequential /\ NoSearchFailed) =>
    \A e \in Emails :
      ContactOps(e) # {} =>
        /\ Cardinality(RecordsWithEmail(e)) = 1
        /\ Cardinality({o \in ContactOps(e) :
             inv[o[1]].syncedContacts[o[2]].action = "created"}) = 1
        /\ \A o \in ContactOps(e) :
             inv[o[1]].syncedContacts[o[2]].id
               = CHOOSE c \in RecordsWithEmail(e) : TRUE

C6_Witness ==
  /\ Sequential /\ NoSearchFailed
  /\ Cardinality(RecordsWithEmail("e1")) = 1
  /\ \E i, j \in DoneSyncs :
       /\ i < j
       /\ Len(inv[i].syncedContacts) > 0
       /\ inv[i].syncedContacts[1].email = "e1"
       /\ inv[i].syncedContacts[1].action = "created"
       /\ Len(inv[j].syncedContacts) > 0
       /\ inv[j].syncedContacts[1].email = "e1"
       /\ inv[j].syncedContacts[1].action = "updated"

\* C7: an invocation that attempted N contacts and M action items, N + M > 0,
\* logs completed iff no item failed, failed iff no item succeeded, and
\* partial otherwise; each failed item left one error message.
C7_Classification ==
  \A i \in ItemSyncs :
    LET attempted == Len(inv[i].contacts) + Len(inv[i].actionItems)
        succeeded == Len(inv[i].syncedContacts) + Len(inv[i].syncedTasks)
        failed == attempted - succeeded
    IN attempted > 0 =>
         /\ inv[i].logged = <<inv[i].status>>
         /\ Len(inv[i].errors) = failed
         /\ inv[i].status = "completed" <=> failed = 0
         /\ inv[i].status = "failed" <=> succeeded = 0
         /\ inv[i].status = "partial" <=> (failed > 0 /\ succeeded > 0)

C7_Witness ==
  \E i, j \in ItemSyncs :
    /\ inv[i].status = "partial"
    /\ Len(inv[i].syncedContacts) = 0 /\ Len(inv[i].syncedTasks) = 1
    /\ inv[j].status = "failed"

\* C8: a sync invocation writes status synced iff its outcome is completed;
\* the recording is synced only when some invocation completed.
C8_SyncedIffCompleted ==
  /\ \A i \in DoneSyncs :
       (\E k \in 1..Len(inv[i].wrote) : inv[i].wrote[k] = "synced")
         <=> inv[i].status = "completed"
  /\ \A i \in 1..Len(inv) :
       (inv[i].fn = "crm-sync" /\ inv[i].pc # "done") => inv[i].wrote = <<>>
  /\ recordingStatus = "synced"
       <=> \E i \in DoneSyncs : inv[i].status = "completed"

C8_Witness ==
  /\ recordingStatus = "synced"
  /\ \E i, j \in DoneSyncs :
       /\ inv[i].status = "completed"
       /\ inv[j].status = "partial"

C10_OneRowPerInvocation ==
  /\ \A i \in DoneSyncs : Len(inv[i].logged) = 1
  /\ Len(syncLogs) = Cardinality(DoneSyncs)

\* ------------------------------------------------------------------------
\* Properties of the transcribe and analyze stages: failures
\* ------------------------------------------------------------------------

\* the invocations of a stage that were accepted (the busy status was
\* written) and then failed
FailedAfterAccept(fn, busy) ==
  {i \in 1..Len(inv) :
     /\ inv[i].fn = fn /\ inv[i].pc = "done" /\ inv[i].error # NoVal
     /\ Len(inv[i].wrote) > 0 /\ inv[i].wrote[1] = busy}

\* C11: a transcribe invocation that failed after its request was accepted
\* has written status failed with an error message, answered with an error
\* response and left no transcript row.
C11_TranscribeFailureMarksFailed ==
  \A i \in FailedAfterAccept("transcribe", "transcribing") :
    /\ inv[i].wrote[Len(inv[i].wrote)] = "failed"
    /\ recordingError # NoVal
    /\ inv[i].response >= 400
    /\ \A t \in 1..Len(transcriptions) : transcriptions[t].createdBy # i

\* C12: an analyze invocation that failed after its request was accepted has
\* written status failed with an error message.
C12_AnalyzeFailureMarksFailed ==
  \A i \in FailedAfterAccept("analyze", "analyzing") :
    /\ inv[i].wrote[Len(inv[i].wrote)] = "failed"
    /\ recordingError # NoVal

\* C13 (transcribe, analyze): with OPENAI_API_KEY missing, every invocation
\* of the two stages answers with an error and nothing persisted changes:
\* the recording keeps its status and has no error message, and there is no
\* transcript, no analysis result and no call of a next stage.
C13_MissingSecretNoMutation ==
  ~env.openai =>
    /\ \A i \in 1..Len(inv) :
         inv[i].fn \in {"transcribe", "analyze"} =>
           /\ inv[i].pc = "done"
           /\ inv[i].response >= 400
           /\ inv[i].wrote = <<>>
    /\ recordingStatus = "completed"
    /\ recordingError = NoVal
    /\ transcriptions = <<>>
    /\ analysisResults = <<>>
    /\ triggers = <<>>

\* C14 (crm-sync): a request whose JSON body lacks analysisId or recordingId
\* is answered with a 4xx status, and nothing was written or called for it.
C14_SyncMissingFieldRejected ==
  \A i \in 1..Len(inv) :
    (/\ inv[i].fn = "crm-sync"
     /\ inv[i].error # "parse"
     /\ (inv[i].analysisId = NoId \/ inv[i].recordingId = NoVal)) =>
      /\ inv[i].pc = "done"
      /\ inv[i].response \in 400..499
      /\ inv[i].wrote = <<>>
      /\ inv[i].logged = <<>>
      /\ inv[i].crmCalls = 0

\* ------------------------------------------------------------------------
\* Properties of the OAuth exchange function and of disconnectCRM
\* ------------------------------------------------------------------------
DoneExchanges == {i \in 1..Len(exch) : exch[i].pc = "done"}

NotConnectedProfile == Profile(NoVal, FALSE, NoVal, NoVal)

\* the row without the preferences of its settings object
CredentialFields(p) == [p EXCEPT !.settings.autoSyncToCRM = NoVal]

\* some step of the invocation failed, by the answers it received
StepFailed(e) ==
  \/ ~e.body.json
  \/ e.body.code = NoVal
  \/ e.body.codeVerifier = NoVal
  \/ e.body.redirectUri = NoVal
  \/ oauthEnv.clientId = NoVal
  \/ oauthEnv.clientSecret = NoVal
  \/ e.tokenStatus \notin 200..299
  \/ e.userInfoStatus \notin 200..299
  \/ e.bearer = NoVal
  \/ e.userResult.error
  \/ e.userResult.user = NoVal
  \/ e.updateError

\* C15: an invocation of the exchange function in which a step failed
\* answers { success: false } and has written no profile; one in which no
\* step failed succeeds; while no exchange succeeded and nobody
\* disconnected, both profile rows keep the credential they started with.
C15_FailureLeavesProfile ==
  /\ \A i \in DoneExchanges :
       IF StepFailed(exch[i])
         THEN /\ ~exch[i].success
              /\ exch[i].response = 400
              /\ exch[i].wroteProfile = NoVal
         ELSE exch[i].success
  /\ ((\A i \in 1..Len(exch) : ~exch[i].success) /\ profileOps = <<>>) =>
       /\ otherProfile = NotConnectedProfile
       /\ CredentialFields(profile)
            \in {NotConnectedProfile,
                 Profile("salesforce", TRUE, "at1", InstanceUrl)}

C15_Witness ==
  /\ profile = Profile("salesforce", TRUE, "at1", InstanceUrl)
  /\ \E i, j \in DoneExchanges :
       /\ exch[i].updateError
       /\ exch[j].tokenStatus = 400

\* C16: a profile row is written only by an invocation whose bearer token
\* belongs to that row's user, whatever userId the body names; an invocation
\* without a bearer or with an unknown one writes no row.
C16_WritesBearerOwnerOnly ==
  /\ \A i \in 1..Len(exch) :
       exch[i].wroteProfile # NoVal =>
         exch[i].wroteProfile = TokenOwner(exch[i].bearer)
  /\ otherProfile # NotConnectedProfile =>
       \E i \in DoneExchanges :
         exch[i].success /\ exch[i].bearer = "jwt-u2"
  /\ profile.crm_access_token = "at2" =>
       \E i \in DoneExchanges :
         exch[i].success /\ exch[i].bearer = "jwt-u1"

C16_Witness ==
  /\ otherProfile = NotConnectedProfile
  /\ profile.crm_access_token = "at2"
  /\ \E i, j \in DoneExchanges :
       /\ exch[i].success
       /\ exch[i].bearer = "jwt-u1"
       /\ exch[i].body.userId = OtherUserId
       /\ exch[j].bearer = "bad"
       /\ exch[j].userInfoStatus = 200
       /\ ~exch[j].success

\* the client secret and the access and refresh tokens
SecretValues == {"cs1", "at1", "rt1", "at2", "rt2"}

\* C17: no log line of the exchange function shows the client secret, an
\* access token or a refresh token in full.
C17_NoSecretInLog ==
  \A i \in 1..Len(exch) :
    \A k \in 1..Len(exch[i].log) :
      \A part \in exch[i].log[k].parts :
        part.full => part.value \notin SecretValues

\* C19: when the last successful write of the owner's credential is a
\* disconnect and an exchange succeeded before it, the provider, the
\* connection flag, both tokens and the instance URL are unset.
C19_DisconnectClearsCredential ==
  (/\ Len(profileOps) >= 2
   /\ profileOps[Len(profileOps)] = "disconnect"
   /\ \E k \in 1..Len(profileOps) : profileOps[k] = "exchange") =>
    /\ profile.crm_provider = NoVal
    /\ ~profile.crm_connected
    /\ profile.crm_access_token = NoVal
    /\ profile.crm_refresh_token = NoVal
    /\ profile.settings.salesforce_instance_url = NoVal

\* ------------------------------------------------------------------------
\* Further properties of the stages
\* ------------------------------------------------------------------------

\* C18: whatever transcribe invocations ran, the recording has at most one
\* transcript row.
C18_OneTranscriptPerRecording ==
  Cardinality({t \in 1..Len(transcriptions) :
                 transcriptions[t].recording_id = RecordingId}) <= 1

\* C20: a sync invocation of a connected user on an analysis result without
\* contacts and without action items has outcome skipped and does not write
\* status synced.
C20_NothingToDoIsSkipped ==
  \A i \in DoneSyncs :
    (/\ inv[i].error = NoVal
     /\ Len(analysisResults[inv[i].analysisId].contacts) = 0
     /\ Len(analysisResults[inv[i].analysisId].action_items) = 0) =>
      /\ inv[i].status = "skipped"
      /\ inv[i].logged = <<"skipped">>
      /\ inv[i].wrote = <<>>

\* the invocations inside or past the item loops
InItemLoops ==
  ItemSyncs \cup {i \in 1..Len(inv) :
                    inv[i].fn = "crm-sync" /\ inv[i].pc \in ItemPhase}

\* the positions of the contacts whose sync left no error message
SuccessfulContacts(i) ==
  SelectSeq([k \in 1..Len(inv[i].contacts) |-> k],
            LAMBDA k : \A e \in 1..Len(inv[i].errors) : inv[i].errors[e] # k)

\* C21: within one crm-sync invocation every contact and every action item
\* is attempted exactly once and in order: each item passed so far left
\* either one synced entry or one error message, the error positions are
\* increasing, and the synced contacts are the extracted contacts that did
\* not fail, in extraction order
C21_EveryItemAttemptedOnce ==
  \A i \in InItemLoops :
    LET n == Len(inv[i].contacts) + Len(inv[i].actionItems)
        passed == IF inv[i].pc = "done" THEN n ELSE inv[i].idx - 1
        ok == SuccessfulContacts(i)
    IN /\ Len(inv[i].syncedContacts) + Len(inv[i].syncedTasks)
            + Len(inv[i].errors) = passed
       /\ \A e \in 1..Len(inv[i].errors) :
            /\ inv[i].errors[e] \in 1..passed
            /\ e > 1 => inv[i].errors[e - 1] < inv[i].errors[e]
       /\ Len(inv[i].syncedContacts) =
            Cardinality({k \in 1..Len(ok) : ok[k] <= passed})
       /\ \A k \in 1..Len(inv[i].syncedContacts) :
            inv[i].syncedContacts[k].email = inv[i].contacts[ok[k]]

\* the first contact failed and the items after it were still attempted
C21_Witness ==
  \E i \in ItemSyncs :
    /\ inv[i].pc = "done"
    /\ Len(inv[i].contacts) + Len(inv[i].actionItems) >= 2
    /\ inv[i].errors = <<1>>
    /\ Len(inv[i].syncedContacts) + Len(inv[i].syncedTasks) >= 1

\* C22: every task created by a crm-sync invocation is linked to the CRM
\* record of the first contact, in extraction order, whose sync succeeded in
\* that invocation, and carries no contact link when none succeeded
C22_TaskLinkedToFirstSynced ==
  \A t \in 1..Len(crmTasks) :
    LET i == crmTasks[t].createdBy
        ok == SuccessfulContacts(i)
    IN IF ok = <<>>
         THEN crmTasks[t].WhoId = NoId
         ELSE /\ crmTasks[t].WhoId \in 1..Len(crmContacts)
              /\ crmContacts[crmTasks[t].WhoId].Email = inv[i].contacts[ok[1]]

\* the first contact failed, the second succeeded, and the task is linked
\* to the second contact's record
C22_Witness ==
  \E t \in 1..Len(crmTasks) :
    LET i == crmTasks[t].createdBy
    IN /\ Len(inv[i].contacts) = 2
       /\ inv[i].errors = <<1>>
       /\ crmTasks[t].WhoId \in 1..Len(crmContacts)
       /\ crmContacts[crmTasks[t].WhoId].Email = inv[i].contacts[2]

\* C23: when the connected profile names a provider other than salesforce,
\* or has no instance URL, an invocation that got as far as the profile
\* fails as a whole with an error response before any item: it made no CRM
\* call, wrote no recording status, and the CRM holds no record from it
C23_CredentialFailureBeforeItems ==
  \A i \in 1..Len(inv) :
    ( /\ inv[i].fn = "crm-sync"
      /\ inv[i].error \notin {"parse", "fields", "analysis"}
      /\ profile.crm_connected /\ profile.crm_access_token # NoVal
      /\ \/ profile.crm_provider # "salesforce"
         \/ profile.settings.salesforce_instance_url = NoVal )
    => /\ inv[i].pc = "done"
       /\ inv[i].response = 500
       /\ inv[i].error \in {"provider", "instance"}
       /\ inv[i].crmCalls = 0
       /\ inv[i].wrote = <<>>
       /\ inv[i].syncedContacts = <<>> /\ inv[i].syncedTasks = <<>>
       /\ crmContacts = <<>> /\ crmTasks = <<>>
       /\ recordingStatus = "analyzed"

\* an invocation for a salesforce profile without instance URL has failed
C23_Witness ==
  \E i \in 1..Len(inv) :
    /\ inv[i].fn = "crm-sync" /\ inv[i].pc = "done"
    /\ inv[i].error = "instance" /\ inv[i].response = 500
    /\ profile.crm_provider = "salesforce"
    /\ Len(analysisResults[inv[i].analysisId].contacts) > 0

\* the analyze calls issued by invocation i
AnalysisTriggersBy(i) ==
  {t \in 1..Len(triggers) : triggers[t].fn = "analyze" /\ triggers[t].by = i}

C25_TransientStatusLeaves ==
  (recordingStatus \in {"transcribing", "analyzing"})
    ~> (recordingStatus \in {"transcribed", "analyzed", "synced", "failed"})

\* the task records with a subject, and those an invocation created
TasksWithSubject(item) ==
  {t \in 1..Len(crmTasks) : crmTasks[t].Subject = item}

TasksCreatedBy(i, item) ==
  {t \in TasksWithSubject(item) : crmTasks[t].createdBy = i}

\* the invocations that synced every item and had the action item
FullySuccessful(item) ==
  {i \in ItemSyncs :
     /\ inv[i].status = "completed"
     /\ \E a \in 1..Len(inv[i].actionItems) : inv[i].actionItems[a] = item}

\* C26: re-running crm-sync for the same analysis re-creates the tasks: an
\* invocation past the item loops holds one task id per action item that
\* did not fail, each a record of its own whatever earlier invocations
\* created, so k fully successful invocations leave k records per item
C26_TasksRecreated ==
  \A item \in {"t1"} :
    /\ \A i \in ItemSyncs :
         /\ Len(inv[i].syncedTasks) + Len(inv[i].syncedContacts)
              + Len(inv[i].errors)
              = Len(inv[i].contacts) + Len(inv[i].actionItems)
         /\ Cardinality(TasksCreatedBy(i, item)) = Len(inv[i].syncedTasks)
         /\ \A k \in 1..Len(inv[i].syncedTasks) :
              inv[i].syncedTasks[k] \in TasksCreatedBy(i, item)
    /\ \A i \in FullySuccessful(item) :
         Cardinality(TasksCreatedBy(i, item)) = 1
    /\ Cardinality(TasksWithSubject(item))
         >= Cardinality(FullySuccessful(item))

\* two fully successful invocations for the same analysis, two records for
\* its action item
C26_Witness ==
  /\ Cardinality(FullySuccessful("t1")) = 2
  /\ Cardinality(TasksWithSubject("t1")) = 2

\* C27: whatever the interleaving of two crm-sync invocations that process
\* a contact with the same email, and with every search answered, the CRM
\* holds exactly one contact record for that email
C27_OneRecordUnderInterleaving ==
  NoSearchFailed =>
    \A e \in Emails :
      ContactOps(e) # {} => Cardinality(RecordsWithEmail(e)) = 1

\* C29: handleSalesforceCallback looks the session up at most 3 times and,
\* once the loop is left, has sent the exchange request exactly when a
\* lookup returned a session and the verifier verification passed, also
\* when an earlier lookup returned an error
C29_SessionFoundProceeds ==
  /\ callback.lookups <= 3
  /\ (callback.pc \in {"exchange", "done"} /\ callback.lookups > 0)
       => (callback.sent <=>
             (callback.session
                /\ VerifyStep(callback.state, callback.codeVerifier)))

\* the exchange requests sent, after the authorization attempt was made,
\* by callbacks that carried its state parameter
RequestsForIssued ==
  {r \in 1..Len(exchangeRequests) : exchangeRequests[r].forIssued}

\* C28: for one authorization attempt at most one exchange request is
\* sent: a second delivery of the callback with the same code and state is
\* rejected without calling the exchange function
C28_OneExchangePerAttempt ==
  /\ Cardinality(RequestsForIssued) <= authAttempts
  /\ \A a, b \in RequestsForIssued :
       exchangeRequests[a].code = exchangeRequests[b].code => a = b

\* C30: a successful exchange changes only the CRM credential fields of
\* the caller's profile; a preference stored in its settings object by
\* updateSettings is left as it was
C30_ExchangeKeepsPreferences ==
  [][(profileOps' # profileOps
        /\ profileOps'[Len(profileOps')] = "exchange")
      => profile'.settings.autoSyncToCRM = profile.settings.autoSyncToCRM]_vars

====
